---- MODULE Spec2Model ----
(***************************************************************************)
(* Model of the holotree library of rcc (htfs/library.go): the restore     *)
(* pipeline (hololib.RestoreTo) run by concurrent callers against one      *)
(* target directory, the record pipeline (hololib.Record) run against the *)
(* stage of the library, Export with its per-file zip tasks, HasBlueprint  *)
(* with the queryCache of a library instance, Remove, and the stats value  *)
(* shared by pool tasks.  Each has a specification of its own: Spec,       *)
(* SpecRecord, SpecExport, SpecQuery, SpecShared, SpecRemove, SpecStats;   *)
(* SpecFair is the restore pipeline under fair scheduling, and SpecTarget  *)
(* is Restore next to TargetDir.                                           *)
(*                                                                         *)
(* Disk state is modelled by value: a file is the digest of its content    *)
(* (an untouched hardlink of the library object), the mark Modified (a     *)
(* file whose content or mtime a user changed) or NoFile.                  *)
(***************************************************************************)
EXTENDS Integers, Sequences, FiniteSets, TLC

\* ------------------------------------------------------------------ bounds
Procs == {1, 2}
MaxCalls == 2
MaxEdits == 1
TickMs == 30000
MaxRuns == 3
MaxList == 2
MaxOps == 4

\* -------------------------------------------------------- program constants
LockTimeoutMs == 30000

\* A file of the target is the digest of its content; NoFile and Modified
\* stand for a missing file and for one a user has changed.
NoFile == <<>>
Modified == <<"modified">>
NoObject == "NoObject"
NoErr == "NoErr"
Unlocked == {}

\* ------------------------------------------------------------ pure helpers
\* Content digests, as the sequence of two-character groups of the hex string.
DigestFile(content) ==
    CASE content = "hello" -> <<"2c", "f2", "4d", "ba">>
      [] content = "world" -> <<"48", "6e", "a4", "62">>
      [] content = "hola"  -> <<"b2", "21", "d9", "db">>
      [] content = "env1"  -> <<"2c", "f2", "4d", "07">>
      [] content = "env2"  -> <<"9a", "3c", "51", "e0">>

Contents == {"hello", "world", "hola", "env1", "env2"}

\* Blueprints recorded by Record, and blueprints restored by RestoreTo.
Blueprints == {"env1", "env2"}

RestoreBlueprints == {"envA", "envB", "envC", "envE", "envX"}

BlueprintHash(blueprint) ==
    CASE blueprint = "env1" -> "8b2083d2"
      [] blueprint = "env2" -> "4e67cd80"
      [] blueprint = "envA" -> "a1a1a1a1"
      [] blueprint = "envB" -> "b2b2b2b2"
      [] blueprint = "envC" -> "c3c3c3c3"
      [] blueprint = "envE" -> "e5e5e5e5"
      [] blueprint = "envX" -> "0f0f0f0f"

Keys == {BlueprintHash(b) : b \in Blueprints \cup RestoreBlueprints}

Location(digest) == <<"library", digest[1], digest[2], digest[3]>>

ExactDefaultLocation_shard(digest) == <<"library", digest[1], digest[2], digest[3]>>

ExactDefaultLocation(digest) == <<"library", digest[1], digest[2], digest[3], digest>>

ExactLocation(digest) == ExactDefaultLocation(digest)

CatalogName(key) == <<key, "v12", "linux_amd64">>

CatalogPath(key) == <<"catalog", CatalogName(key)>>

\* stats and its operations
ZeroStats == [total |-> 0, dirty |-> 0, links |-> 0, duplicate |-> 0]

Duplicate(it) == [it EXCEPT !.total = @ + 1, !.duplicate = @ + 1]

Link(it) == [it EXCEPT !.total = @ + 1, !.links = @ + 1]

Dirty(it, dirty) ==
    [it EXCEPT !.total = @ + 1, !.dirty = IF dirty THEN @ + 1 ELSE @]

\* Dirtyness in tenths of a percent, before the final division by 10.0;
\* the integer division panics when total = 0.
DirtynessPanics(it) == it.total = 0

Dirtyness_percent(it) == 10 * ((100 * it.dirty) \div it.total)

Dirtyness(it) == (1000 * it.dirty) \div it.total

\* float64(dirtyness) / 10.0: the whole percents and the one decimal.
AsPercent(tenths) == [whole |-> tenths \div 10, tenth |-> tenths % 10]

\* A path is <<directory, name>>; files at the top of the tree have directory ".".
DirOf(path) == path[1]

DirsOf(files) == {DirOf(f) : f \in DOMAIN files} \ {"."}

Tree(key, files) ==
    [Blueprint |-> key, Controller |-> "", Space |-> "", Files |-> files]

EmptyFiles == [f \in {} |-> NoFile]

\* A catalog or meta file that does not exist, and one that does not parse.
NoTree == [Blueprint |-> "NoFile", Controller |-> "", Space |-> "", Files |-> EmptyFiles]

Garbage == [Blueprint |-> "Garbage", Controller |-> "", Space |-> "", Files |-> EmptyFiles]

ObjLocs == {ExactLocation(DigestFile(c)) : c \in Contents}

\* The target directory: every caller of the model uses the same label.
TargetPaths == {<<"a", "x">>, <<"b", "z">>}

TargetDirs == {"a", "b"}

\* The catalogs that earlier recordings left in the library, by blueprint:
\* envA and envB differ in a/x only, envC lacks b/z, envE has no file at all,
\* envX was never recorded.
RecordedFiles(blueprint) ==
    CASE blueprint = "envA" ->
            (<<"a", "x">> :> DigestFile("hello")) @@ (<<"b", "z">> :> DigestFile("world"))
      [] blueprint = "envB" ->
            (<<"a", "x">> :> DigestFile("hola")) @@ (<<"b", "z">> :> DigestFile("world"))
      [] blueprint = "envC" -> (<<"a", "x">> :> DigestFile("hello"))
      [] blueprint = "envE" -> EmptyFiles

RecordedBlueprints == {"envA", "envB", "envC", "envE"}

\* ---------------------------------------------------------------- variables
VARIABLES
    \* disk
    catalogs,      \* <catalogs>/<key>v12.<platform>: key -> tree or NoFile
    library,       \* object location -> content or NoFile
    cmtime,        \* keys whose catalog mtime was set by TouchWhen
    usage,         \* keys with a usage sentinel <key>.<user>
    lock,          \* the holders of <targetdir>.lck: {p} or Unlocked
    meta,          \* <targetdir>.meta: tree, Garbage or NoFile
    tdirs,         \* directories under the target
    tfiles,        \* files under the target: path -> digest, Modified, NoFile
    \* the RestoreTo call of each process
    \* catalog -> tree, NoTree or Garbage; meta likewise
    pc, key, fs, waited, shadow, currentstate, mode, pending, failed, score,
    err, result,
    \* the label, controller and space the call was given
    targs,
    \* bookkeeping of the calls
    calls, edits, touched, relinked, intact, stalecrash,
    \* the partial flag that the RestoreTo step just taken tested, and the plan
    \* and identity lines it logged
    logged,
    \* the Record call and the stage
    stage, rpc, rblueprint, rfs, rpending, rinserting, rfailed, rscore, rerr,
    runs, rprev,
    \* the Export call: its position, the lists it was given, the index in the
    \* list being walked, the catalog loaded, its file tasks, zipseen.seen, the
    \* entries written to the archive, the exported flag and the error
    xpc, xS, xE, xi, xfs, xtasks, seen, archive, exported, xerr,
    \* the library instance's queryCache and the HasBlueprint call of each
    \* thread: position, key, the catalog loaded, what the call has seen, found;
    \* and the first answer the instance has returned for each key
    queryCache, hpc, hkey, hshadow, hsaw, hfound, hfirst,
    \* the Remove call: position, the names given, the index, the error
    mpc, mnames, mi, merr,
    \* a stats value shared by pool tasks: the counters, the holders of its
    \* mutex, each task's position and operation, the number of calls made,
    \* what Dirtyness returned, the counters a task has read, and the number of
    \* calls of each operation that have returned
    st, smutex, spc, sop, scalls, sresult, sreg, sdone

diskvars == <<catalogs, library, cmtime, usage, lock, meta, tdirs, tfiles>>

callvars == <<pc, key, fs, waited, shadow, currentstate, mode, pending, failed,
              score, err, result, targs>>

bookvars == <<calls, edits, touched, relinked, intact, stalecrash, logged>>

recordvars == <<stage, rpc, rblueprint, rfs, rpending, rinserting, rfailed,
                rscore, rerr, runs, rprev>>

restorevars == <<cmtime, usage, lock, meta, tdirs, tfiles, callvars, calls,
                 touched, relinked, intact, stalecrash, logged>>

exportvars == <<xpc, xS, xE, xi, xfs, xtasks, seen, archive, exported, xerr>>

queryvars == <<queryCache, hpc, hkey, hshadow, hsaw, hfound, hfirst>>

removevars == <<mpc, mnames, mi, merr>>

statsvars == <<st, smutex, spc, sop, scalls, sresult, sreg, sdone>>

toolvars == <<exportvars, queryvars, removevars, statsvars>>

libvars == <<diskvars, callvars, bookvars, recordvars>>

\* What the steps of Export, of HasBlueprint and of Remove leave alone.
notexport == <<libvars, queryvars, removevars, statsvars>>

notquery == <<callvars, bookvars, recordvars, exportvars, removevars, statsvars>>

notremove == <<callvars, bookvars, recordvars, exportvars, queryvars, statsvars>>

notstats == <<libvars, exportvars, queryvars, removevars>>

vars == <<libvars, toolvars>>

\* ------------------------------------------------------------ RestoreTo
\* score := &stats{}
NewStats_kept == rscore

NewStats == ZeroStats

\* No plan or identity line.
NoLog == [partial |-> FALSE, lines |-> {}]

\* fs.Controller = controller; fs.Space = space: the tree that SaveAs(metafile) writes.
StampedAs(tree, controller, space) ==
    [tree EXCEPT !.Controller = controller, !.Space = space]

\* The calls of Spec are RestoreTo(blueprint, "label", "citests", "user", partial).
Stamped(tree) == StampedAs(tree, "citests", "user")

\* common.HolotreeLocation()
HolotreeLocation == "holotree"

\* Catalogs recorded under another holotree location than the default.
SharedKeys == {BlueprintHash("env2")}

\* Root.HolotreeBase(): the directory above the path the catalog names.
HolotreeBase(tree) ==
    IF tree.Blueprint \in SharedKeys THEN "shared" ELSE HolotreeLocation

\* filepath.Join(dir, name)
Join(dir, name) == <<dir, name>>

\* targetdir := filepath.Join(fs.HolotreeBase(), label)
targetdir(tree, label) == Join(HolotreeBase(tree), label)

\* The target directory of the calls of Spec.
LabelDir == Join(HolotreeLocation, "label")

NoArgs == [label |-> "", controller |-> "", space |-> ""]

IsTree(file) == file.Blueprint \notin {"NoFile", "Garbage"}

\* Root.LoadFrom: a missing or malformed file does not load.
LoadFrom(file) == IF IsTree(file) THEN NoErr ELSE "load"

\* pathlib.Locker(lockfile, timeout, shared): the results a call that has
\* waited `waitedms` can get from a lock in state `holder`.
Locker(holder, waitedms) ==
    IF holder = Unlocked THEN {NoErr}
    ELSE IF waitedms >= LockTimeoutMs THEN {"lock-timeout"}
    ELSE {}

\* fail.On(err != nil, "Could not get lock for %s. Quiting.", targetdir)
LockFailed_ignored(lockerr) == FALSE

LockFailed(lockerr) == lockerr # NoErr

\* DigestRecorder(currentstate): path -> digest of every file of the tree.
DigestRecorder(tree) == tree.Files

\* The mode line, as the words of the formatted string.
Mode(k, shadowfile) ==
    IF ~IsTree(shadowfile) THEN <<"new", "space", "for", k>>
    ELSE IF k = shadowfile.Blueprint THEN <<"cleaned", "up", "space", "for", k>>
    ELSE <<"coverted", "space", "from", shadowfile.Blueprint, "to", k>>

CurrentState_forgotten(shadowfile) == EmptyFiles

CurrentState(shadowfile) ==
    IF IsTree(shadowfile) THEN DigestRecorder(shadowfile) ELSE EmptyFiles

\* fail.On(err != nil, "Failed to restore directories -> %v", err): Sync
\* surfaces the first error of the file tasks.
RestoreFailed_ignored(failedtasks) == FALSE

RestoreFailed(failedtasks) == failedtasks # {}

\* locker.Release(), deferred.
Release_kept(p) == lock

Release(p) == lock \ {p}

Critical == {"meta", "relocate", "branches", "restore", "stamp", "touch"}

Terminal == {"idle", "done", "failed", "crashed", "panicked"}

\* The files the meta records are on disk as the objects it names.
Intact(tree) ==
    /\ IsTree(tree)
    /\ \A f \in DOMAIN tree.Files : tfiles[f] = tree.Files[f]

Touch(p, what) == [touched EXCEPT ![p] = @ \cup what]

Local(p, to, e) ==
    /\ pc' = [pc EXCEPT ![p] = to]
    /\ err' = [err EXCEPT ![p] = e]

\* The call returns or dies: its locals are gone, the deferred Release runs.
Leave(p, to, e) ==
    /\ Local(p, to, e)
    /\ lock' = Release(p)
    /\ key' = [key EXCEPT ![p] = ""]
    /\ fs' = [fs EXCEPT ![p] = NoTree]
    /\ waited' = [waited EXCEPT ![p] = 0]
    /\ shadow' = [shadow EXCEPT ![p] = NoTree]
    /\ currentstate' = [currentstate EXCEPT ![p] = EmptyFiles]
    /\ mode' = [mode EXCEPT ![p] = <<>>]
    /\ pending' = [pending EXCEPT ![p] = {}]
    /\ failed' = [failed EXCEPT ![p] = {}]
    /\ score' = [score EXCEPT ![p] = ZeroStats]
    /\ relinked' = [relinked EXCEPT ![p] = {}]
    /\ intact' = [intact EXCEPT ![p] = FALSE]
    /\ touched' = [touched EXCEPT ![p] = {}]

locals == <<key, fs, waited, shadow, currentstate, mode, pending, failed, score,
            relinked, intact, touched>>

Fail(p, e) == Leave(p, "failed", e)

\* RestoreTo up to LoadFrom(catalog).
RestoreToBegin(p, blueprint, label, controller, space, stageok) ==
    /\ pc[p] \in Terminal
    /\ \A q \in Procs : q < p => pc[q] # "idle"   \* processes are numbered by first call
    /\ calls < MaxCalls
    /\ calls' = calls + 1
    /\ targs' = [targs EXCEPT ![p] = [label |-> label, controller |-> controller,
                                      space |-> space]]
    /\ LET k == BlueprintHash(blueprint)
           loaderr == IF stageok THEN LoadFrom(catalogs[k]) ELSE "stage"
       IN IF loaderr = NoErr
          THEN /\ Local(p, "lock", NoErr)
               /\ key' = [key EXCEPT ![p] = k]
               /\ fs' = [fs EXCEPT ![p] = catalogs[k]]
               /\ waited' = [waited EXCEPT ![p] = 0]
               /\ touched' = [touched EXCEPT ![p] = {}]
               /\ result' = [result EXCEPT ![p] = <<>>]
               /\ UNCHANGED <<lock, shadow, currentstate, mode, pending, failed,
                              score, relinked, intact>>
          ELSE /\ Fail(p, loaderr)
               /\ result' = [result EXCEPT ![p] = <<>>]
    /\ UNCHANGED <<catalogs, library, cmtime, usage, meta, tdirs, tfiles, edits,
                   stalecrash, recordvars, toolvars>>
    /\ logged' = NoLog

\* Time passes while another holder keeps the lock.
LockWait(p) ==
    /\ pc[p] = "lock"
    /\ lock # Unlocked
    /\ waited[p] < LockTimeoutMs
    /\ waited' = [waited EXCEPT ![p] = @ + TickMs]
    /\ UNCHANGED <<diskvars, pc, key, fs, shadow, currentstate, mode, pending,
                   failed, score, err, result, calls, edits, touched, relinked,
                   intact, stalecrash, recordvars, toolvars, targs>>
    /\ logged' = NoLog

\* pathlib.Locker returns, and the fail.On that follows it.
RestoreToLock(p) ==
    /\ pc[p] = "lock"
    /\ \E lockerr \in Locker(lock, waited[p]) :
          /\ lock' = IF lockerr = NoErr THEN {p} ELSE lock
          /\ Local(p, IF LockFailed(lockerr) THEN "failed" ELSE "meta", lockerr)
    /\ UNCHANGED <<catalogs, library, cmtime, usage, meta, tdirs, tfiles, locals,
                   result, calls, edits, stalecrash, recordvars,
                   toolvars, targs>>
    /\ logged' = NoLog

\* Load <targetdir>.meta, classify the mode, record the current digests.
RestoreToMeta(p) ==
    /\ pc[p] = "meta"
    /\ LET loaded == IF LoadFrom(meta) = NoErr THEN meta ELSE NoTree
       IN /\ shadow' = [shadow EXCEPT ![p] = loaded]
          /\ mode' = [mode EXCEPT ![p] = Mode(key[p], loaded)]
          /\ currentstate' = [currentstate EXCEPT ![p] = CurrentState(loaded)]
          /\ intact' = [intact EXCEPT ![p] = Intact(loaded)]
    /\ touched' = Touch(p, {"meta.read"})
    /\ pc' = [pc EXCEPT ![p] = "relocate"]
    /\ UNCHANGED <<diskvars, key, fs, waited, pending, failed, score, err,
                   result, calls, edits, relinked, stalecrash, recordvars,
                   toolvars, targs>>
    /\ logged' = NoLog

\* fs.Relocate(targetdir)
RestoreToRelocate(p, ok) ==
    /\ pc[p] = "relocate"
    /\ IF ok
       THEN /\ pc' = [pc EXCEPT ![p] = "branches"]
            /\ UNCHANGED <<err, lock, locals>>
       ELSE Fail(p, "relocate")
    /\ UNCHANGED <<catalogs, library, cmtime, usage, meta, tdirs, tfiles,
                   result, calls, edits, stalecrash, recordvars,
                   toolvars, targs>>
    /\ logged' = NoLog

\* fs.Treetop(MakeBranches): every directory of the catalog, or on failure
\* only some of them.
BranchesFailed_ignored(brancherr) == FALSE

BranchesFailed(brancherr) == brancherr # NoErr

RestoreToMakeBranches(p, made) ==
    /\ pc[p] = "branches"
    /\ made \subseteq DirsOf(fs[p].Files)
    /\ tdirs' = tdirs \cup made
    /\ IF ~BranchesFailed(IF made = DirsOf(fs[p].Files) THEN NoErr ELSE "branches")
       THEN /\ pc' = [pc EXCEPT ![p] = "restore"]
            /\ score' = [score EXCEPT ![p] = NewStats]
            /\ pending' = [pending EXCEPT ![p] = DOMAIN fs[p].Files]
            /\ touched' = IF tdirs' # tdirs THEN Touch(p, {"target"}) ELSE touched
            /\ UNCHANGED <<err, lock, key, fs, waited, shadow, currentstate,
                           mode, failed, relinked, intact>>
       ELSE Fail(p, "branches")
    /\ UNCHANGED <<catalogs, library, cmtime, usage, meta, tfiles, result,
                   calls, edits, stalecrash, recordvars, toolvars, targs>>
    /\ logged' = NoLog

\* One file task of AllDirs(RestoreDirectory(it, fs, currentstate, score)):
\* a file that the meta and the disk both show with the catalog's digest is
\* left in place and counted as link; any other is removed, hardlinked from
\* the library and counted dirty.
Reusable(p, f) ==
    /\ f \in DOMAIN currentstate[p]
    /\ currentstate[p][f] = fs[p].Files[f]
    /\ tfiles[f] = fs[p].Files[f]

RestoreDirectory(p, f, ok) ==
    /\ pc[p] = "restore"
    /\ f \in pending[p]
    /\ pending' = [pending EXCEPT ![p] = @ \ {f}]
    /\ IF Reusable(p, f)
       THEN /\ ok
            /\ score' = [score EXCEPT ![p] = Link(@)]
            /\ UNCHANGED <<tfiles, failed, relinked, touched>>
       ELSE IF ok
       THEN /\ DirOf(f) \in tdirs
            /\ library[ExactLocation(fs[p].Files[f])] # NoObject
            /\ tfiles' = [tfiles EXCEPT ![f] = fs[p].Files[f]]
            /\ score' = [score EXCEPT ![p] = Dirty(@, TRUE)]
            /\ relinked' = [relinked EXCEPT ![p] = @ \cup {f}]
            /\ touched' = Touch(p, {"target"})
            /\ UNCHANGED failed
       ELSE /\ \E left \in {tfiles[f], NoFile} :
                  /\ tfiles' = [tfiles EXCEPT ![f] = left]
                  /\ touched' = IF left # tfiles[f] THEN Touch(p, {"target"})
                                ELSE touched
            /\ failed' = [failed EXCEPT ![p] = @ \cup {f}]
            /\ UNCHANGED <<score, relinked>>
    /\ UNCHANGED <<catalogs, library, cmtime, usage, lock, meta, tdirs, pc, key,
                   fs, waited, shadow, currentstate, mode, err, result, calls,
                   edits, intact, stalecrash, recordvars, toolvars, targs>>
    /\ logged' = NoLog

\* Sync: every file task has settled; the first error fails the call.
RestoreToSync(p) ==
    /\ pc[p] = "restore"
    /\ pending[p] = {}
    /\ IF RestoreFailed(failed[p])
       THEN Fail(p, "restore")
       ELSE /\ pc' = [pc EXCEPT ![p] = "stamp"]
            /\ UNCHANGED <<err, lock, locals>>
    /\ UNCHANGED <<catalogs, library, cmtime, usage, meta, tdirs, tfiles,
                   result, calls, edits, stalecrash, recordvars,
                   toolvars, targs>>
    /\ logged' = NoLog

\* score.Dirtyness(), then fs.SaveAs(metafile) with Controller and Space set.
RestoreToSaveMeta(p, ok) ==
    /\ pc[p] = "stamp"
    /\ IF DirtynessPanics(score[p])
       THEN /\ Leave(p, "panicked", "panic")
            /\ UNCHANGED meta
       ELSE IF ok
       THEN /\ meta' = StampedAs(fs[p], targs[p].controller, targs[p].space)
            /\ touched' = Touch(p, {"meta.write"})
            /\ pc' = [pc EXCEPT ![p] = "touch"]
            /\ UNCHANGED <<err, lock, key, fs, waited, shadow, currentstate,
                           mode, pending, failed, score, relinked, intact>>
       ELSE /\ Fail(p, "save")
            /\ UNCHANGED meta
    /\ UNCHANGED <<catalogs, library, cmtime, usage, tdirs, tfiles, result,
                   calls, edits, stalecrash, recordvars, toolvars, targs>>
    /\ logged' = NoLog

\* if !partial && pathlib.FileExist(file) { common.Log(...) }
Logs_always(partial, exists) == exists

Logs(partial, exists) == ~partial /\ exists

\* TouchWhen(catalog, now), the plan and identity lines, touchUsedHash(key),
\* return targetdir.  partial is read here only, so its value is drawn here.
RestoreToReturn(p, partial, planfile, identityfile) ==
    /\ pc[p] = "touch"
    /\ logged' = [partial |-> partial,
                  lines |-> {l \in {"plan", "identity"} :
                                Logs(partial, IF l = "plan" THEN planfile
                                              ELSE identityfile)}]
    /\ cmtime' = cmtime \cup {key[p]}
    /\ usage' = usage \cup {key[p]}
    /\ result' = [result EXCEPT ![p] = targetdir(fs[p], targs[p].label)]
    /\ Leave(p, "done", NoErr)
    /\ stalecrash' = FALSE
    /\ UNCHANGED <<catalogs, library, meta, tdirs, tfiles, calls, edits,
                   recordvars, toolvars, targs>>

\* The process dies inside the locked section; the lock dies with it.
Crash(p) ==
    /\ pc[p] \in Critical
    /\ Leave(p, "crashed", "killed")
    /\ stalecrash' = (stalecrash \/ (pc[p] \in {"restore", "stamp"} /\ IsTree(meta)))
    /\ UNCHANGED <<catalogs, library, cmtime, usage, meta, tdirs, tfiles,
                   result, calls, edits, recordvars, toolvars, targs>>
    /\ logged' = NoLog

\* Between restores a user changes or deletes a file of the target, or
\* damages the meta.
TamperFile(f, what) ==
    /\ \A q \in Procs : pc[q] \in Terminal
    /\ edits < MaxEdits
    /\ edits' = edits + 1
    /\ tfiles[f] \notin {NoFile, what}
    /\ tfiles' = [tfiles EXCEPT ![f] = what]
    /\ UNCHANGED <<catalogs, library, cmtime, usage, lock, meta, tdirs,
                   callvars, locals, calls, stalecrash, recordvars, toolvars>>
    /\ logged' = NoLog

TamperMeta ==
    /\ \A q \in Procs : pc[q] \in Terminal
    /\ edits < MaxEdits
    /\ edits' = edits + 1
    /\ IsTree(meta)
    /\ meta' = Garbage
    /\ UNCHANGED <<catalogs, library, cmtime, usage, lock, tdirs, tfiles,
                   callvars, locals, calls, stalecrash, recordvars, toolvars>>
    /\ logged' = NoLog

\* No Export call has been made.
ExportIdle ==
    /\ xpc = "idle"
    /\ xS = <<>>
    /\ xE = <<>>
    /\ xi = 0
    /\ xfs = NoTree
    /\ xtasks = EmptyFiles
    /\ seen = {}
    /\ archive = {}
    /\ exported = FALSE
    /\ xerr = NoErr

\* The threads that share one library instance.
HThreads == {1, 2}

\* queryCache: make(map[string]bool), and no HasBlueprint call yet.
QueryIdle ==
    /\ queryCache = <<>>
    /\ hpc = [t \in HThreads |-> "idle"]
    /\ hkey = [t \in HThreads |-> ""]
    /\ hshadow = [t \in HThreads |-> NoTree]
    /\ hsaw = [t \in HThreads |-> {}]
    /\ hfound = [t \in HThreads |-> FALSE]
    /\ hfirst = <<>>

\* No Remove call has been made.
RemoveIdle ==
    /\ mpc = "idle"
    /\ mnames = <<>>
    /\ mi = 0
    /\ merr = NoErr

\* The pool tasks that share one stats value.
STasks == {1, 2}

NoResult == [whole |-> 0, tenth |-> 0, total |-> 0, dirty |-> 0]

\* score := &stats{}, and no call on it yet.
StatsIdle ==
    /\ st = ZeroStats
    /\ smutex = {}
    /\ spc = [t \in STasks |-> "idle"]
    /\ sop = [t \in STasks |-> ""]
    /\ scalls = 0
    /\ sresult = [t \in STasks |-> NoResult]
    /\ sreg = [t \in STasks |-> ZeroStats]
    /\ sdone = [op \in {"Duplicate", "Link", "DirtyTrue", "DirtyFalse"} |-> 0]

ToolsIdle == ExportIdle /\ QueryIdle /\ RemoveIdle /\ StatsIdle

\* What the last Record run left, when it returned without error and the
\* stage has not been changed since.
NoRun == [ok |-> FALSE, blueprint |-> "", catalog |-> NoTree, objects |-> <<>>]

RecordIdle ==
    /\ stage = EmptyFiles
    /\ rpc = "idle"
    /\ rblueprint = ""
    /\ rfs = NoTree
    /\ rpending = {}
    /\ rinserting = {}
    /\ rfailed = {}
    /\ rscore = ZeroStats
    /\ rerr = NoErr
    /\ runs = 0
    /\ rprev = NoRun

\* The target before any restore, and the target that an earlier successful
\* restore of blueprint b left.
EmptyTarget ==
    /\ meta = NoTree
    /\ tdirs = {}
    /\ tfiles = [f \in TargetPaths |-> NoFile]
    /\ cmtime = {}
    /\ usage = {}

Materialized(b) ==
    /\ meta = Stamped(Tree(BlueprintHash(b), RecordedFiles(b)))
    /\ tdirs = DirsOf(RecordedFiles(b))
    /\ tfiles = [f \in TargetPaths |->
          IF f \in DOMAIN RecordedFiles(b) THEN RecordedFiles(b)[f] ELSE NoFile]
    /\ cmtime = {BlueprintHash(b)}
    /\ usage = {BlueprintHash(b)}

RestoreIdle ==
    /\ lock = Unlocked
    /\ pc = [p \in Procs |-> "idle"]
    /\ key = [p \in Procs |-> ""]
    /\ fs = [p \in Procs |-> NoTree]
    /\ waited = [p \in Procs |-> 0]
    /\ shadow = [p \in Procs |-> NoTree]
    /\ currentstate = [p \in Procs |-> EmptyFiles]
    /\ mode = [p \in Procs |-> <<>>]
    /\ pending = [p \in Procs |-> {}]
    /\ failed = [p \in Procs |-> {}]
    /\ score = [p \in Procs |-> ZeroStats]
    /\ err = [p \in Procs |-> NoErr]
    /\ result = [p \in Procs |-> <<>>]
    /\ targs = [p \in Procs |-> NoArgs]
    /\ calls = 0
    /\ edits = 0
    /\ touched = [p \in Procs |-> {}]
    /\ relinked = [p \in Procs |-> {}]
    /\ intact = [p \in Procs |-> FALSE]
    /\ stalecrash = FALSE
    /\ logged = NoLog

\* A library holding the recorded catalogs and their objects; an empty target.
Init ==
    /\ catalogs = [k \in Keys |->
          IF \E b \in RecordedBlueprints : BlueprintHash(b) = k
          THEN Tree(k, RecordedFiles(CHOOSE b \in RecordedBlueprints : BlueprintHash(b) = k))
          ELSE NoTree]
    /\ library = [l \in ObjLocs |->
          IF \E c \in {"hello", "world", "hola"} : ExactLocation(DigestFile(c)) = l
          THEN CHOOSE c \in {"hello", "world", "hola"} : ExactLocation(DigestFile(c)) = l
          ELSE NoObject]
    /\ EmptyTarget \/ Materialized("envA")
    /\ RestoreIdle
    /\ RecordIdle
    /\ ToolsIdle

Next ==
    \/ \E p \in Procs, b \in RestoreBlueprints, ok \in BOOLEAN :
          RestoreToBegin(p, b, "label", "citests", "user", ok)
    \/ \E p \in Procs : LockWait(p)
    \/ \E p \in Procs : RestoreToLock(p)
    \/ \E p \in Procs : RestoreToMeta(p)
    \/ \E p \in Procs, ok \in BOOLEAN : RestoreToRelocate(p, ok)
    \/ \E p \in Procs, made \in SUBSET TargetDirs : RestoreToMakeBranches(p, made)
    \/ \E p \in Procs, f \in TargetPaths, ok \in BOOLEAN : RestoreDirectory(p, f, ok)
    \/ \E p \in Procs : RestoreToSync(p)
    \/ \E p \in Procs, ok \in BOOLEAN : RestoreToSaveMeta(p, ok)
    \/ \E p \in Procs, partial \in BOOLEAN, planfile \in BOOLEAN, identityfile \in BOOLEAN :
          RestoreToReturn(p, partial, planfile, identityfile)
    \/ \E p \in Procs : Crash(p)
    \/ \E f \in TargetPaths, what \in {Modified, NoFile} : TamperFile(f, what)
    \/ TamperMeta

Spec == Init /\ [][Next]_vars

\* The restore calls under fair scheduling: a call that has begun and can take
\* a step of its own eventually takes one.  The start of a call, the passing of
\* time while the lock is held and the death of a process are not forced.
Step(p) ==
    \/ RestoreToLock(p)
    \/ RestoreToMeta(p)
    \/ \E ok \in BOOLEAN : RestoreToRelocate(p, ok)
    \/ \E made \in SUBSET TargetDirs : RestoreToMakeBranches(p, made)
    \/ \E f \in TargetPaths, ok \in BOOLEAN : RestoreDirectory(p, f, ok)
    \/ RestoreToSync(p)
    \/ \E ok \in BOOLEAN : RestoreToSaveMeta(p, ok)
    \/ \E partial \in BOOLEAN, planfile \in BOOLEAN, identityfile \in BOOLEAN :
          RestoreToReturn(p, partial, planfile, identityfile)

\* A catalog with files, the catalog without files, and no catalog.
FairBlueprints == {"envA", "envE", "envX"}

NextFair ==
    \/ \E p \in Procs, b \in FairBlueprints, ok \in BOOLEAN :
          RestoreToBegin(p, b, "label", "citests", "user", ok)
    \/ \E p \in Procs : LockWait(p)
    \/ \E p \in Procs : Step(p)
    \/ \E p \in Procs : Crash(p)

Fairness == \A p \in Procs : WF_vars(Step(p))

SpecFair == Init /\ [][NextFair]_vars /\ Fairness

\* --------------------------------------------------- Restore and TargetDir
\* common.Sipit: a short hash, as the characters of its textual form.
Sipit(text) ==
    CASE text = "citests" -> <<"c", "5", "8", "d", "1", "a", "e", "3", "f">>
      [] text = "user" -> <<"8", "2", "6", "b", "0", "7", "c", "4", "9">>

\* common.Textual(hash, n): the first n characters.
Textual(hash, n) == SubSeq(hash, 1, n)

UserHomeIdentity == <<"4", "e", "6", "7">>

\* ControllerSpaceName(client, tag): identity + "_" + prefix + "_" + suffix
ControllerSpaceName(client, tag) ==
    UserHomeIdentity \o <<"_">> \o Textual(Sipit(client), 7) \o <<"_">>
        \o Textual(Sipit(tag), 8)

\* name := ControllerSpaceName(controller, space)
TargetName_swapped(controller, space) == ControllerSpaceName(space, controller)

TargetName(controller, space) == ControllerSpaceName(controller, space)

\* hololib.TargetDir in the disk state at hand: the path and the error.
TargetDir(blueprint, controller, space, stageok) ==
    LET k == BlueprintHash(blueprint)
        name == TargetName(controller, space)
    IN IF ~stageok THEN [result |-> <<>>, err |-> "stage"]
       ELSE IF LoadFrom(catalogs[k]) # NoErr
       THEN [result |-> Join(HolotreeLocation, name), err |-> NoErr]
       ELSE [result |-> Join(HolotreeBase(catalogs[k]), name), err |-> NoErr]

\* Restore: RestoreTo(blueprint, ControllerSpaceName(client, tag),
\* string(client), string(tag), false).
Restore(p, blueprint, client, tag, stageok) ==
    RestoreToBegin(p, blueprint, ControllerSpaceName(client, tag), client, tag,
                   stageok)

Controllers == {"citests", "user"}

Spaces == {"user", "citests"}

\* envA recorded under the default location, env2 under another one, a
\* catalog file of envC that does not parse, and no catalog of envX.
TargetBlueprints == {"envA", "env2", "envC", "envX"}

InitTarget ==
    /\ catalogs = [k \in Keys |->
          IF k = BlueprintHash("envA") THEN Tree(k, RecordedFiles("envA"))
          ELSE IF k = BlueprintHash("env2") THEN Tree(k, RecordedFiles("envB"))
          ELSE IF k = BlueprintHash("envC") THEN Garbage
          ELSE NoTree]
    /\ library = [l \in ObjLocs |->
          CHOOSE c \in Contents : ExactLocation(DigestFile(c)) = l]
    /\ EmptyTarget
    /\ RestoreIdle
    /\ RecordIdle
    /\ ToolsIdle

\* One Restore call, on any blueprint, controller and space.
NextTarget ==
    \/ \E b \in TargetBlueprints, client \in Controllers, tag \in Spaces,
          ok \in BOOLEAN :
          /\ \A q \in Procs : targs[q] = NoArgs
          /\ Restore(1, b, client, tag, ok)
    \/ \E p \in Procs : Step(p)

SpecTarget == InitTarget /\ [][NextTarget]_vars

\* --------------------------------------------------------------- Record
\* The stage that the installer assembled (scenario 1 of the specification).
StageFiles ==
    (<<"a", "x.txt">> :> "hello") @@ (<<"a", "y.txt">> :> "hello")
        @@ (<<"b", "z.txt">> :> "world")

\* WriteIdentity: identity.yaml in the stage holds the blueprint.
WriteIdentity(files, yaml) ==
    [f \in DOMAIN files \cup {<<".", "identity.yaml">>} |->
        IF f = <<".", "identity.yaml">> THEN yaml ELSE files[f]]

\* fs.Lift() and fs.AllFiles(Locator(identity)): the tree of the stage with
\* the digest of every file.
Lift(files) == [f \in DOMAIN files |-> DigestFile(files[f])]

HasObject(digest) == library[ExactLocation(digest)] # NoObject

\* return err
RecordResult(lifterr) == lifterr

\* Record up to fs.SaveAs(catalog); failat names the call that returns an error.
RecordBegin(blueprint, failat) ==
    /\ rpc \in {"idle", "done"}
    /\ runs < MaxRuns
    /\ runs' = runs + 1
    /\ rblueprint' = blueprint
    /\ stage' = IF failat = "identity" THEN stage ELSE WriteIdentity(stage, blueprint)
    /\ rscore' = rscore
    /\ rpending' = {}
    /\ rinserting' = {}
    /\ rfailed' = {}
    /\ LET k == BlueprintHash(blueprint)
           tree == Tree(k, Lift(stage'))
       IN IF failat = "none"
          THEN /\ rfs' = tree
               /\ catalogs' = [catalogs EXCEPT ![k] = tree]
               /\ rpc' = "save"
               /\ rerr' = NoErr
               /\ rprev' = rprev
          ELSE /\ rfs' = NoTree
               /\ catalogs' = catalogs
               /\ rpc' = "done"
               /\ rerr' = failat
               /\ rprev' = NoRun
    /\ UNCHANGED <<library, edits, restorevars, toolvars>>

\* score := &stats{}; fs.Treetop(ScheduleLifters(it, score)) submits one task
\* per file node.
RecordSchedule ==
    /\ rpc = "save"
    /\ rscore' = NewStats
    /\ rpending' = DOMAIN rfs.Files
    /\ rpc' = "lift"
    /\ UNCHANGED <<catalogs, library, edits, restorevars, toolvars, stage, rblueprint, rfs,
                   rinserting, rfailed, rerr, runs, rprev>>

\* A lift task looks for the object: a duplicate when it is there.
LiftCheck(f) ==
    /\ rpc = "lift"
    /\ f \in rpending
    /\ rpending' = rpending \ {f}
    /\ IF HasObject(rfs.Files[f])
       THEN /\ rscore' = Duplicate(rscore)
            /\ UNCHANGED rinserting
       ELSE /\ rinserting' = rinserting \cup {f}
            /\ UNCHANGED rscore
    /\ UNCHANGED <<catalogs, library, edits, restorevars, toolvars, stage, rpc, rblueprint,
                   rfs, rfailed, rerr, runs, rprev>>

\* The task inserts the bytes of the stage file (temp file, then rename), and
\* counts dirty, and a link when the stage file and the object are one inode.
LiftInsert(f, ok, sameinode) ==
    /\ rpc = "lift"
    /\ f \in rinserting
    /\ rinserting' = rinserting \ {f}
    /\ IF ok
       THEN /\ library' = [library EXCEPT ![ExactLocation(rfs.Files[f])] = stage[f]]
            /\ rscore' = IF sameinode THEN Link(Dirty(rscore, TRUE))
                         ELSE Dirty(rscore, TRUE)
            /\ UNCHANGED rfailed
       ELSE /\ ~sameinode
            /\ rfailed' = rfailed \cup {f}
            /\ UNCHANGED <<library, rscore>>
    /\ UNCHANGED <<catalogs, edits, restorevars, toolvars, stage, rpc, rblueprint, rfs,
                   rpending, rerr, runs, rprev>>

\* Treetop joins the tasks (Sync) and Record returns the first error.
RecordReturn ==
    /\ rpc = "lift"
    /\ rpending = {} /\ rinserting = {}
    /\ rpc' = "done"
    /\ rerr' = RecordResult(IF rfailed = {} THEN NoErr ELSE "lift")
    /\ rprev' = IF rfailed = {}
                THEN [ok |-> TRUE, blueprint |-> rblueprint,
                      catalog |-> catalogs[BlueprintHash(rblueprint)],
                      objects |-> library]
                ELSE NoRun
    /\ UNCHANGED <<catalogs, library, edits, restorevars, toolvars, stage, rblueprint, rfs,
                   rpending, rinserting, rfailed, rscore, runs>>

\* Between runs the installer rewrites a file of the stage.
StageChange(f, content) ==
    /\ rpc \in {"idle", "done"}
    /\ edits < MaxEdits
    /\ edits' = edits + 1
    /\ f \in DOMAIN stage
    /\ stage[f] # content
    /\ stage' = [stage EXCEPT ![f] = content]
    /\ rprev' = NoRun
    /\ UNCHANGED <<catalogs, library, restorevars, toolvars, rpc, rblueprint, rfs,
                   rpending, rinserting, rfailed, rscore, rerr, runs>>

\* An empty library and the assembled stage.
InitRecord ==
    /\ catalogs = [k \in Keys |-> NoTree]
    /\ library = [l \in ObjLocs |-> NoObject]
    /\ EmptyTarget
    /\ RestoreIdle
    /\ stage = StageFiles
    /\ rpc = "idle"
    /\ rblueprint = ""
    /\ rfs = NoTree
    /\ rpending = {}
    /\ rinserting = {}
    /\ rfailed = {}
    /\ rscore = ZeroStats
    /\ rerr = NoErr
    /\ runs = 0
    /\ rprev = NoRun
    /\ ToolsIdle

NextRecord ==
    \/ \E b \in Blueprints,
          failat \in {"none", "identity", "root", "lift", "locator", "save"} :
          RecordBegin(b, failat)
    \/ RecordSchedule
    \/ \E f \in DOMAIN stage : LiftCheck(f)
    \/ \E f \in DOMAIN stage, ok \in BOOLEAN, sameinode \in BOOLEAN :
          LiftInsert(f, ok, sameinode)
    \/ RecordReturn
    \/ \E f \in {<<"b", "z.txt">>}, content \in {"world", "hola"} : StageChange(f, content)

SpecRecord == InitRecord /\ [][NextRecord]_vars

\* --------------------------------------------------------------- Export
\* The catalog files that Export is asked for: the two recorded ones and a
\* name under which there is no loadable catalog.
ExportNames == {BlueprintHash("env1"), BlueprintHash("env2"), BlueprintHash("envX")}

ExportLists == UNION {[1..n -> ExportNames] : n \in 0..MaxList}

\* The catalogs that Record saved for the stage with blueprint env1, and for
\* the stage with b/z.txt rewritten and blueprint env2.
SavedCatalog(blueprint) ==
    Tree(BlueprintHash(blueprint),
         Lift(WriteIdentity(
            IF blueprint = "env1" THEN StageFiles
            ELSE [StageFiles EXCEPT ![<<"b", "z.txt">>] = "hola"],
            blueprint)))

\* filepath.Rel(common.HololibLocation(), ...): the archive-relative path of
\* an object and of a catalog file.
RelativeDefaultLocation(digest) == ExactDefaultLocation(digest)

RelativeCatalog(name) == CatalogPath(name)

\* The objects a catalog file references, as archive-relative paths; none
\* when the catalog does not load.
Refs(name) ==
    IF LoadFrom(catalogs[name]) = NoErr
    THEN {RelativeDefaultLocation(catalogs[name].Files[f]) : f \in DOMAIN catalogs[name].Files}
    ELSE {}

Range(list) == {list[i] : i \in DOMAIN list}

AllRefs(list) == UNION {Refs(name) : name \in Range(list)}

\* The archive is the bag of the entries written: <<path, n>> for the n-th
\* entry written under path.
Entries(path) == Cardinality({e \in archive : e[1] = path})

Written(path) == archive \cup {<<path, Entries(path) + 1>>}

\* err = fs.LoadFrom(catalog); if err != nil { continue }
AfterKnownLoad(loaderr) == IF loaderr # NoErr THEN "skip" ELSE "ignore"

\* fail.On(err != nil, "Could not load catalog from %s -> %v.", catalog, err)
AfterExportLoad_skip(loaderr) == IF loaderr # NoErr THEN "skip" ELSE "zip"

AfterExportLoad(loaderr) == IF loaderr # NoErr THEN "fail" ELSE "zip"

\* fail.On(!exported, "None of given catalogs were available for export!")
NothingExported(flag) == ~flag

ExportFail(e) ==
    /\ xpc' = "failed"
    /\ xerr' = e
    /\ xtasks' = EmptyFiles
    /\ xfs' = NoTree

\* Export up to the first loop: the archive is created, the zipper is empty.
ExportBegin(catalognames, known, created) ==
    /\ xpc = "idle"
    /\ xS' = catalognames
    /\ xE' = known
    /\ seen' = {}
    /\ archive' = {}
    /\ exported' = FALSE
    /\ IF created
       THEN /\ xpc' = "known"
            /\ xi' = 1
            /\ UNCHANGED <<xfs, xtasks, xerr>>
       ELSE /\ ExportFail("create")
            /\ UNCHANGED xi
    /\ UNCHANGED <<notexport>>

\* One turn of the loop over known: load the catalog, skip it when it does
\* not load, else Treetop(ZipIgnore) submits its file tasks.
ExportKnown ==
    /\ xpc = "known"
    /\ IF xi > Len(xE)
       THEN /\ xpc' = "export"
            /\ xi' = 1
            /\ UNCHANGED <<xfs, xtasks, xerr>>
       ELSE LET loaded == catalogs[xE[xi]]
                after == AfterKnownLoad(LoadFrom(loaded))
            IN IF after = "skip"
               THEN /\ xi' = xi + 1
                    /\ UNCHANGED <<xpc, xfs, xtasks, xerr>>
               ELSE /\ xpc' = "ignoring"
                    /\ xfs' = loaded
                    /\ xtasks' = [f \in DOMAIN loaded.Files |-> "pending"]
                    /\ UNCHANGED <<xi, xerr>>
    /\ UNCHANGED <<xS, xE, seen, archive, exported, notexport>>

\* A file task of ZipIgnore: zipseen.Ignore marks the object's path seen.
ZipIgnore(f) ==
    /\ xpc = "ignoring"
    /\ f \in DOMAIN xtasks
    /\ xtasks[f] = "pending"
    /\ seen' = seen \cup {RelativeDefaultLocation(xfs.Files[f])}
    /\ xtasks' = [xtasks EXCEPT ![f] = "done"]
    /\ UNCHANGED <<xpc, xS, xE, xi, xfs, archive, exported, xerr, notexport>>

\* Treetop(ZipIgnore) has joined its tasks; on to the next known catalog.
ExportKnownSync ==
    /\ xpc = "ignoring"
    /\ \A f \in DOMAIN xtasks : xtasks[f] = "done"
    /\ xpc' = "known"
    /\ xi' = xi + 1
    /\ xtasks' = EmptyFiles
    /\ xfs' = NoTree
    /\ UNCHANGED <<xS, xE, seen, archive, exported, xerr, notexport>>

\* One turn of the loop over catalogs, up to Treetop(ZipRoot) submitting the
\* file tasks; after the loop, the check of the exported flag.
ExportNext ==
    /\ xpc = "export"
    /\ IF xi > Len(xS)
       THEN /\ IF NothingExported(exported)
               THEN ExportFail("nothing-to-export")
               ELSE /\ xpc' = "done"
                    /\ UNCHANGED <<xfs, xtasks, xerr>>
            /\ UNCHANGED xi
       ELSE LET loaded == catalogs[xS[xi]]
                after == AfterExportLoad(LoadFrom(loaded))
            IN IF after = "fail"
               THEN /\ ExportFail("load")
                    /\ UNCHANGED xi
               ELSE IF after = "skip"
               THEN /\ xi' = xi + 1
                    /\ UNCHANGED <<xpc, xfs, xtasks, xerr>>
               ELSE /\ xpc' = "zipping"
                    /\ xfs' = loaded
                    /\ xtasks' = [f \in DOMAIN loaded.Files |-> "pending"]
                    /\ UNCHANGED <<xi, xerr>>
    /\ UNCHANGED <<xS, xE, seen, archive, exported, notexport>>

\* A file task of ZipRoot calls zipseen.Add(location, relative).
\* if it.seen[relativepath] { return nil }
ZipAddCheck(f) ==
    /\ xpc = "zipping"
    /\ f \in DOMAIN xtasks
    /\ xtasks[f] = "pending"
    /\ xtasks' = [xtasks EXCEPT ![f] =
          IF RelativeDefaultLocation(xfs.Files[f]) \in seen THEN "done" ELSE "marking"]
    /\ UNCHANGED <<xpc, xS, xE, xi, xfs, seen, archive, exported, xerr, notexport>>

\* it.seen[relativepath] = true
ZipAddMark(f) ==
    /\ xpc = "zipping"
    /\ f \in DOMAIN xtasks
    /\ xtasks[f] = "marking"
    /\ seen' = seen \cup {RelativeDefaultLocation(xfs.Files[f])}
    /\ xtasks' = [xtasks EXCEPT ![f] = "writing"]
    /\ UNCHANGED <<xpc, xS, xE, xi, xfs, archive, exported, xerr, notexport>>

\* os.Open(fullpath), it.Create(relativepath), io.Copy(target, source)
ZipAddWrite(f, ok) ==
    /\ xpc = "zipping"
    /\ f \in DOMAIN xtasks
    /\ xtasks[f] = "writing"
    /\ IF ok /\ HasObject(xfs.Files[f])
       THEN /\ archive' = Written(RelativeDefaultLocation(xfs.Files[f]))
            /\ xtasks' = [xtasks EXCEPT ![f] = "done"]
       ELSE /\ xtasks' = [xtasks EXCEPT ![f] = "failed"]
            /\ UNCHANGED archive
    /\ UNCHANGED <<xpc, xS, xE, xi, xfs, seen, exported, xerr, notexport>>

\* Treetop(ZipRoot) has joined its tasks: the first error fails the export.
ExportZipSync ==
    /\ xpc = "zipping"
    /\ \A f \in DOMAIN xtasks : xtasks[f] \in {"done", "failed"}
    /\ IF \E f \in DOMAIN xtasks : xtasks[f] = "failed"
       THEN ExportFail("zip")
       ELSE /\ xpc' = "catalog"
            /\ xtasks' = EmptyFiles
            /\ UNCHANGED <<xfs, xerr>>
    /\ UNCHANGED <<xS, xE, xi, seen, archive, exported, notexport>>

\* zipper.Add(catalog, relative), then exported = true.
ExportAddCatalog(ok) ==
    /\ xpc = "catalog"
    /\ LET relative == RelativeCatalog(xS[xi])
       IN IF relative \in seen
          THEN /\ ok
               /\ UNCHANGED <<seen, archive>>
          ELSE /\ seen' = seen \cup {relative}
               /\ archive' = IF ok THEN Written(relative) ELSE archive
    /\ IF ok
       THEN /\ exported' = TRUE
            /\ xi' = xi + 1
            /\ xpc' = "export"
            /\ xfs' = NoTree
            /\ UNCHANGED <<xtasks, xerr>>
       ELSE /\ ExportFail("add")
            /\ UNCHANGED <<exported, xi>>
    /\ UNCHANGED <<xS, xE, notexport>>

\* The library with the two recorded catalogs and their objects.
InitExport ==
    /\ catalogs = [k \in Keys |->
          IF k = BlueprintHash("env1") THEN SavedCatalog("env1")
          ELSE IF k = BlueprintHash("env2") THEN SavedCatalog("env2")
          ELSE NoTree]
    /\ library = [l \in ObjLocs |->
          CHOOSE c \in Contents : ExactLocation(DigestFile(c)) = l]
    /\ EmptyTarget
    /\ RestoreIdle
    /\ RecordIdle
    /\ ToolsIdle

NextExport ==
    \/ \E catalognames \in ExportLists, known \in ExportLists, created \in BOOLEAN :
          ExportBegin(catalognames, known, created)
    \/ ExportKnown
    \/ \E f \in DOMAIN xtasks : ZipIgnore(f)
    \/ ExportKnownSync
    \/ ExportNext
    \/ \E f \in DOMAIN xtasks : ZipAddCheck(f)
    \/ \E f \in DOMAIN xtasks : ZipAddMark(f)
    \/ \E f \in DOMAIN xtasks, ok \in BOOLEAN : ZipAddWrite(f, ok)
    \/ ExportZipSync
    \/ \E ok \in BOOLEAN : ExportAddCatalog(ok)

SpecExport == InitExport /\ [][NextExport]_vars

\* ------------------------------------------------- HasBlueprint and Remove
\* pathlib.IsFile(catalog)
IsFile(file) == file.Blueprint # "NoFile"

\* CatalogCheck: every object the catalog references is in the library and
\* its content has the digest of its name.
CatalogCheck(tree) ==
    IF \A f \in DOMAIN tree.Files :
          /\ HasObject(tree.Files[f])
          /\ DigestFile(library[ExactLocation(tree.Files[f])]) = tree.Files[f]
    THEN NoErr ELSE "check"

\* if err != nil { common.Debug("Catalog check failed, ..."); return false }
CheckFailed_ignored(checkerr) == FALSE

CheckFailed(checkerr) == checkerr # NoErr

Passed == {"isfile", "loaded", "checked", "still"}

\* The threads that are at a read or a write of the queryCache map.
AtCache(t) == hpc[t] \in {"lookup", "store"}

Racing(t) == hpc[t] = "store" /\ \E u \in HThreads \ {t} : AtCache(u)

\* found, ok := it.queryCache[key]; if !ok { ... }
Cached_never(k) == FALSE

Cached(k) == k \in DOMAIN queryCache

\* The first answer of the instance for a key stays on record.
Answered(k, found) == IF k \in DOMAIN hfirst THEN hfirst ELSE (k :> found) @@ hfirst

\* key := common.BlueprintHash(blueprint)
HasBlueprintBegin(t, blueprint) ==
    /\ hpc[t] \in {"idle", "returned"}
    /\ hpc' = [hpc EXCEPT ![t] = "lookup"]
    /\ hkey' = [hkey EXCEPT ![t] = BlueprintHash(blueprint)]
    /\ hsaw' = [hsaw EXCEPT ![t] =
          (IF rpc = "done" /\ rerr = NoErr /\ rblueprint = blueprint /\ runs > 0
           THEN {"recorded"} ELSE {})
          \cup (IF BlueprintHash(blueprint) \in DOMAIN hfirst THEN {"again"} ELSE {})]
    /\ hshadow' = [hshadow EXCEPT ![t] = NoTree]
    /\ hfound' = [hfound EXCEPT ![t] = FALSE]
    /\ UNCHANGED <<diskvars, queryCache, hfirst, notquery>>

\* found, ok := it.queryCache[key]; a hit returns found.
HasBlueprintLookup(t) ==
    /\ hpc[t] = "lookup"
    /\ IF Cached(hkey[t])
       THEN /\ hfound' = [hfound EXCEPT ![t] = queryCache[hkey[t]]]
            /\ hpc' = [hpc EXCEPT ![t] = "returned"]
            /\ hfirst' = Answered(hkey[t], queryCache[hkey[t]])
            /\ UNCHANGED hsaw
       ELSE /\ hpc' = [hpc EXCEPT ![t] = "isfile"]
            /\ hsaw' = [hsaw EXCEPT ![t] = @ \cup {"queried"}]
            /\ UNCHANGED <<hfound, hfirst>>
    /\ UNCHANGED <<diskvars, queryCache, hkey, hshadow, notquery>>

\* queryBlueprint: if !pathlib.IsFile(catalog) { return false }
QueryIsFile(t) ==
    /\ hpc[t] = "isfile"
    /\ IF IsFile(catalogs[hkey[t]])
       THEN /\ hpc' = [hpc EXCEPT ![t] = "load"]
            /\ hsaw' = [hsaw EXCEPT ![t] = @ \cup {"isfile"}]
       ELSE /\ hpc' = [hpc EXCEPT ![t] = "store"]
            /\ UNCHANGED hsaw
    /\ UNCHANGED <<diskvars, queryCache, hkey, hshadow, hfound, hfirst, notquery>>

\* NewRoot(tempdir) and shadow.LoadFrom(catalog): an error returns false.
QueryLoad(t, rootok) ==
    /\ hpc[t] = "load"
    /\ IF rootok /\ LoadFrom(catalogs[hkey[t]]) = NoErr
       THEN /\ hpc' = [hpc EXCEPT ![t] = "check"]
            /\ hshadow' = [hshadow EXCEPT ![t] = catalogs[hkey[t]]]
            /\ hsaw' = [hsaw EXCEPT ![t] = @ \cup {"loaded"}]
       ELSE /\ hpc' = [hpc EXCEPT ![t] = "store"]
            /\ UNCHANGED <<hshadow, hsaw>>
    /\ UNCHANGED <<diskvars, queryCache, hkey, hfound, hfirst, notquery>>

\* shadow.Treetop(CatalogCheck(it, shadow)): an error returns false.
QueryCheck(t) ==
    /\ hpc[t] = "check"
    /\ LET checkerr == CatalogCheck(hshadow[t])
       IN /\ hpc' = [hpc EXCEPT ![t] =
                IF CheckFailed(checkerr) THEN "store" ELSE "still"]
          /\ hsaw' = [hsaw EXCEPT ![t] =
                IF checkerr = NoErr THEN @ \cup {"checked"} ELSE @]
    /\ hshadow' = [hshadow EXCEPT ![t] = NoTree]
    /\ UNCHANGED <<diskvars, queryCache, hkey, hfound, hfirst, notquery>>

\* return pathlib.IsFile(catalog)
QueryStill(t) ==
    /\ hpc[t] = "still"
    /\ hfound' = [hfound EXCEPT ![t] = IsFile(catalogs[hkey[t]])]
    /\ hsaw' = [hsaw EXCEPT ![t] =
          IF IsFile(catalogs[hkey[t]]) THEN @ \cup {"still"} ELSE @]
    /\ hpc' = [hpc EXCEPT ![t] = "store"]
    /\ UNCHANGED <<diskvars, queryCache, hkey, hshadow, hfirst, notquery>>

\* it.queryCache[key] = found; return found.  The map has no lock: a write
\* while another thread reads or writes it is a data race, which the runtime
\* may detect and then kills the process.
HasBlueprintStore(t, detected) ==
    /\ hpc[t] = "store"
    /\ IF detected
       THEN /\ Racing(t)
            /\ hpc' = [u \in HThreads |-> "fatal"]
            /\ UNCHANGED <<queryCache, hfirst>>
       ELSE /\ queryCache' = (hkey[t] :> hfound[t]) @@ queryCache
            /\ hfirst' = Answered(hkey[t], hfound[t])
            /\ hpc' = [hpc EXCEPT ![t] = "returned"]
    /\ UNCHANGED <<diskvars, hkey, hshadow, hsaw, hfound, notquery>>

\* Another run of the program: New() makes a library with an empty queryCache.
NewInstance ==
    /\ \A t \in HThreads : hpc[t] \in {"idle", "returned", "fatal"}
    /\ \E t \in HThreads : hpc[t] # "idle"
    /\ queryCache' = <<>>
    /\ hpc' = [t \in HThreads |-> "idle"]
    /\ hkey' = [t \in HThreads |-> ""]
    /\ hshadow' = [t \in HThreads |-> NoTree]
    /\ hsaw' = [t \in HThreads |-> {}]
    /\ hfound' = [t \in HThreads |-> FALSE]
    /\ hfirst' = <<>>
    /\ UNCHANGED <<diskvars, notquery>>

\* Remove: the names given are catalog file names.
RemoveNames == {BlueprintHash("env1"), BlueprintHash("env2"), BlueprintHash("envX")}

RemoveLists == UNION {[1..n -> RemoveNames] : n \in 0..MaxList}

\* if !pathlib.IsFile(catalog) { pretty.Warning(...); continue }
AfterIsFile_fail(isfile) == IF isfile THEN "remove" ELSE "fail"

AfterIsFile(isfile) == IF isfile THEN "remove" ELSE "skip"

RemoveBegin(names) ==
    /\ mpc \in {"idle", "done", "failed"}
    /\ mpc' = "loop"
    /\ mnames' = names
    /\ mi' = 1
    /\ merr' = NoErr
    /\ UNCHANGED <<diskvars, notremove>>

\* One turn of the loop: a name that is not a file is skipped, a file is
\* removed, and a removal that fails ends the call with the error.
RemoveNext(ok) ==
    /\ mpc = "loop"
    /\ mi \in DOMAIN mnames
    /\ LET name == mnames[mi]
           after == AfterIsFile(IsFile(catalogs[name]))
       IN IF after = "skip"
          THEN /\ ok
               /\ mi' = mi + 1
               /\ UNCHANGED <<catalogs, mpc, merr>>
          ELSE IF after = "remove" /\ ok /\ IsFile(catalogs[name])
          THEN /\ catalogs' = [catalogs EXCEPT ![name] = NoTree]
               /\ mi' = mi + 1
               /\ UNCHANGED <<mpc, merr>>
          ELSE /\ mpc' = "failed"
               /\ merr' = "remove"
               /\ UNCHANGED <<catalogs, mi>>
    /\ UNCHANGED <<library, cmtime, usage, lock, meta, tdirs, tfiles, mnames,
                   notremove>>

\* return nil
RemoveReturn ==
    /\ mpc = "loop"
    /\ mi > Len(mnames)
    /\ mpc' = "done"
    /\ UNCHANGED <<diskvars, mnames, mi, merr, notremove>>

\* An empty library, the assembled stage, and possibly a damaged catalog
\* file under the name of env2.
InitQuery ==
    /\ catalogs \in {[k \in Keys |-> IF k = BlueprintHash("env2") THEN damaged ELSE NoTree] :
                        damaged \in {NoTree, Garbage}}
    /\ library = [l \in ObjLocs |-> NoObject]
    /\ EmptyTarget
    /\ RestoreIdle
    /\ stage = StageFiles
    /\ rpc = "idle"
    /\ rblueprint = ""
    /\ rfs = NoTree
    /\ rpending = {}
    /\ rinserting = {}
    /\ rfailed = {}
    /\ rscore = ZeroStats
    /\ rerr = NoErr
    /\ runs = 0
    /\ rprev = NoRun
    /\ ToolsIdle

Quiet == hpc[1] \in {"idle", "returned"} /\ mpc \in {"idle", "done"}

\* One thread uses the instance; the runs that record, query and remove
\* follow each other, and a Remove of another process may fall into a query.
NextQuery ==
    \/ \E failat \in {"none", "save"} : Quiet /\ RecordBegin("env1", failat)
    \/ RecordSchedule
    \/ \E f \in DOMAIN stage : LiftCheck(f)
    \/ \E f \in DOMAIN stage, ok \in BOOLEAN : LiftInsert(f, ok, FALSE)
    \/ RecordReturn
    \/ \E b \in Blueprints : rpc \in {"idle", "done"} /\ HasBlueprintBegin(1, b)
    \/ HasBlueprintLookup(1)
    \/ QueryIsFile(1)
    \/ \E rootok \in BOOLEAN : QueryLoad(1, rootok)
    \/ QueryCheck(1)
    \/ QueryStill(1)
    \/ HasBlueprintStore(1, FALSE)
    \/ rpc \in {"idle", "done"} /\ NewInstance
    \/ rpc \in {"idle", "done"} /\ RemoveBegin(<<BlueprintHash("env1")>>)
    \/ RemoveNext(TRUE)
    \/ RemoveReturn

SpecQuery == InitQuery /\ [][NextQuery]_vars

\* Remove alone, on the library with the two recorded catalogs, a damaged
\* catalog file, and a target restored from it.
InitRemove ==
    /\ catalogs = [k \in Keys |->
          IF k = BlueprintHash("env1") THEN SavedCatalog("env1")
          ELSE IF k = BlueprintHash("env2") THEN Garbage
          ELSE NoTree]
    /\ library = [l \in ObjLocs |->
          CHOOSE c \in Contents : ExactLocation(DigestFile(c)) = l]
    /\ Materialized("envA")
    /\ RestoreIdle
    /\ RecordIdle
    /\ ToolsIdle

NextRemove ==
    \/ \E names \in RemoveLists : RemoveBegin(names)
    \/ \E ok \in BOOLEAN : RemoveNext(ok)
    \/ RemoveReturn

SpecRemove == InitRemove /\ [][NextRemove]_vars

\* Two threads call HasBlueprint on one instance, over the library with the
\* two recorded catalogs.
NextShared ==
    \/ \E t \in HThreads, b \in Blueprints \cup {"envX"} : HasBlueprintBegin(t, b)
    \/ \E t \in HThreads : HasBlueprintLookup(t)
    \/ \E t \in HThreads : QueryIsFile(t)
    \/ \E t \in HThreads, rootok \in BOOLEAN : QueryLoad(t, rootok)
    \/ \E t \in HThreads : QueryCheck(t)
    \/ \E t \in HThreads : QueryStill(t)
    \/ \E t \in HThreads, detected \in BOOLEAN : HasBlueprintStore(t, detected)
    \/ NewInstance

SpecShared == InitExport /\ [][NextShared]_vars

\* ---------------------------------------------------------------- stats
StatsOps == {"Duplicate", "Link", "DirtyTrue", "DirtyFalse", "Dirtyness"}

\* The counters an operation increments.
Writes(op) ==
    CASE op = "Duplicate" -> {"total", "duplicate"}
      [] op = "Link" -> {"total", "links"}
      [] op = "DirtyTrue" -> {"total", "dirty"}
      [] op = "DirtyFalse" -> {"total"}
      [] op = "Dirtyness" -> {}

\* The operation applied to the counters a task has read.
Applied(op, it) ==
    CASE op = "Duplicate" -> Duplicate(it)
      [] op = "Link" -> Link(it)
      [] op = "DirtyTrue" -> Dirty(it, TRUE)
      [] op = "DirtyFalse" -> Dirty(it, FALSE)
      [] op = "Dirtyness" -> it

\* A pool task calls an operation of the shared stats value.
StatsCall(t, op) ==
    /\ spc[t] \in {"idle", "panicked"}
    /\ scalls < MaxOps
    /\ scalls' = scalls + 1
    /\ spc' = [spc EXCEPT ![t] = "lock"]
    /\ sop' = [sop EXCEPT ![t] = op]
    /\ UNCHANGED <<st, smutex, sresult, sreg, sdone, notstats>>

\* it.Lock() returns when no task holds the mutex.
MutexFree_always(holders) == TRUE

MutexFree(holders) == holders = {}

StatsLock(t) ==
    /\ spc[t] = "lock"
    /\ MutexFree(smutex)
    /\ smutex' = smutex \cup {t}
    /\ spc' = [spc EXCEPT ![t] = "locked"]
    /\ UNCHANGED <<st, sop, scalls, sresult, sreg, sdone, notstats>>

\* The operation reads the counters.
StatsLoad(t) ==
    /\ spc[t] = "locked"
    /\ sreg' = [sreg EXCEPT ![t] = st]
    /\ spc' = [spc EXCEPT ![t] = "loaded"]
    /\ UNCHANGED <<st, smutex, sop, scalls, sresult, sdone, notstats>>

\* The operation writes the counters it increments, or Dirtyness divides;
\* then the deferred it.Unlock().
StatsApply(t) ==
    /\ spc[t] = "loaded"
    /\ smutex' = smutex \ {t}
    /\ IF sop[t] = "Dirtyness"
       THEN /\ UNCHANGED <<st, sdone>>
            /\ IF DirtynessPanics(sreg[t])
               THEN /\ spc' = [spc EXCEPT ![t] = "panicked"]
                    /\ UNCHANGED sresult
               ELSE /\ spc' = [spc EXCEPT ![t] = "idle"]
                    /\ sresult' = [sresult EXCEPT ![t] =
                          [whole |-> AsPercent(Dirtyness(sreg[t])).whole,
                           tenth |-> AsPercent(Dirtyness(sreg[t])).tenth,
                           total |-> sreg[t].total, dirty |-> sreg[t].dirty]]
       ELSE /\ st' = [c \in DOMAIN st |->
                        IF c \in Writes(sop[t]) THEN Applied(sop[t], sreg[t])[c]
                        ELSE st[c]]
            /\ sdone' = [sdone EXCEPT ![sop[t]] = @ + 1]
            /\ spc' = [spc EXCEPT ![t] = "idle"]
            /\ UNCHANGED sresult
    /\ sreg' = [sreg EXCEPT ![t] = ZeroStats]
    /\ UNCHANGED <<sop, scalls, notstats>>

NextStats ==
    \/ \E t \in STasks, op \in StatsOps : StatsCall(t, op)
    \/ \E t \in STasks : StatsLock(t)
    \/ \E t \in STasks : StatsLoad(t)
    \/ \E t \in STasks : StatsApply(t)

SpecStats == InitExport /\ [][NextStats]_vars

\* ------------------------------------------------- properties of RestoreTo

\* C1: at most one RestoreTo call is between acquiring <targetdir>.lck and
\* releasing it, and that call is the holder of the lock: the steps that read
\* the meta, make directories, restore files and write the meta belong to one
\* call at a time.
C1_RestoreSerialized ==
    /\ \A p, q \in Procs : (pc[p] \in Critical /\ pc[q] \in Critical) => p = q
    /\ \A p \in Procs : pc[p] \in Critical => lock = {p}

C1_Witness ==
    \E p, q \in Procs :
        /\ pc[p] = "restore" /\ pending[p] # {} /\ pending[p] # DOMAIN fs[p].Files
        /\ pc[q] = "lock" /\ waited[q] > 0

\* C2: a call whose Locker returned the time-out error has waited the 30000 ms
\* while another holder kept the lock, returns that error, and has neither read
\* nor written the meta, changed the target, touched the catalog nor the usage
\* sentinel.
C2_LockTimeoutClean ==
    \A p \in Procs :
        err[p] = "lock-timeout" =>
            /\ pc[p] = "failed"
            /\ waited[p] >= LockTimeoutMs
            /\ touched[p] = {}
            /\ result[p] = <<>>

C2_Witness ==
    \E p, q \in Procs :
        /\ pc[p] = "failed" /\ err[p] = "lock-timeout"
        /\ pc[q] \in Critical /\ lock = {q}

\* C3: the meta file changes only by the SaveAs of a call that holds the lock
\* and whose file tasks have all completed without error (or by a user's
\* edit); a step that fails a call leaves the meta as it was, and a call that
\* has written the meta does not fail afterwards.
C3_MetaAfterAllFiles ==
    [][ /\ meta' # meta =>
            \/ edits' # edits
            \/ \E p \in Procs :
                  /\ pc[p] = "stamp" /\ pc'[p] = "touch" /\ lock = {p}
                  /\ pending[p] = {} /\ failed[p] = {}
                  /\ meta' = Stamped(fs[p])
        /\ \A p \in Procs :
              /\ (pc[p] # "failed" /\ pc'[p] = "failed") => meta' = meta
              /\ pc[p] = "touch" => pc'[p] \in {"touch", "done", "crashed"} ]_vars

C3_Witness ==
    \E p \in Procs :
        /\ pc[p] = "failed" /\ err[p] = "restore"
        /\ IsTree(meta) /\ \E f \in TargetPaths : tfiles[f] # meta.Files[f]

\* C4: after a restore was killed between the directory skeleton and the
\* writing of the meta, leaving the meta of an earlier catalog, a later
\* restore that gets as far as writing its meta has every file of its catalog
\* in the target with the catalog's content.
C4_CrashConverges ==
    \A p \in Procs :
        (pc[p] = "touch" /\ stalecrash) =>
            \A f \in DOMAIN fs[p].Files : tfiles[f] = fs[p].Files[f]

\* the stale meta named the right digest for a file, yet the file had to be
\* relinked
C4_Witness ==
    \E p \in Procs, f \in TargetPaths :
        /\ pc[p] = "touch" /\ stalecrash
        /\ f \in DOMAIN currentstate[p] /\ f \in DOMAIN fs[p].Files
        /\ currentstate[p][f] = fs[p].Files[f]
        /\ f \in relinked[p]

\* C5: a restore of blueprint K into a target that a successful restore of K
\* left and nothing changed since counts dirty = 0 and changes nothing under
\* the target.
C5_IdempotentRestore ==
    \A p \in Procs :
        (pc[p] \in {"restore", "stamp", "touch"} /\ intact[p]
            /\ shadow[p].Blueprint = key[p]) =>
            /\ score[p].dirty = 0
            /\ relinked[p] = {}
            /\ "target" \notin touched[p]
            /\ \A f \in DOMAIN fs[p].Files : tfiles[f] = fs[p].Files[f]

C5_Witness ==
    \E p \in Procs :
        /\ pc[p] = "touch" /\ intact[p] /\ shadow[p].Blueprint = key[p]
        /\ key[p] = BlueprintHash("envB") /\ calls = 2
        /\ score[p].total = 2 /\ score[p].links = 2

\* The paths of the catalog being restored whose digest differs from the one
\* the loaded meta records, or that the meta does not record.
Differing(p) ==
    {f \in DOMAIN fs[p].Files :
        f \notin DOMAIN shadow[p].Files \/ shadow[p].Files[f] # fs[p].Files[f]}

\* C6 as stated: whenever the meta records a catalog K, the files relinked are
\* exactly those whose digest differs between K and the catalog restored.
C6_RelinkedIsDifference ==
    \A p \in Procs :
        (pc[p] \in {"stamp", "touch"} /\ IsTree(shadow[p])) =>
            relinked[p] = Differing(p)

\* C6 amended: the same, when the files that the meta records are on disk,
\* unmodified, as the call takes the lock.
C6_RelinkedIsDifferenceWhenIntact ==
    \A p \in Procs :
        (pc[p] \in {"stamp", "touch"} /\ IsTree(shadow[p]) /\ intact[p]) =>
            /\ relinked[p] = Differing(p)
            /\ score[p].dirty = Cardinality(Differing(p))
            /\ score[p].links = Cardinality(DOMAIN fs[p].Files \ Differing(p))

C6_Witness ==
    \E p \in Procs :
        /\ pc[p] = "touch" /\ IsTree(shadow[p]) /\ intact[p]
        /\ shadow[p].Blueprint # key[p]
        /\ relinked[p] # {} /\ relinked[p] # DOMAIN fs[p].Files

\* C7: the mode is "new space" when the meta does not load (and then the
\* current-state map is empty), "cleaned up space" when the loaded meta has
\* the blueprint being restored, "converted space" when it has another one.
Words(line, n) == IF Len(line) >= n THEN SubSeq(line, 1, n) ELSE <<>>

C7_ModeClassified ==
    \A p \in Procs :
        pc[p] \in (Critical \ {"meta"}) =>
            /\ ~IsTree(shadow[p]) =>
                  /\ Words(mode[p], 2) = <<"new", "space">>
                  /\ currentstate[p] = EmptyFiles
            /\ (IsTree(shadow[p]) /\ shadow[p].Blueprint = key[p]) =>
                  Words(mode[p], 3) = <<"cleaned", "up", "space">>
            /\ (IsTree(shadow[p]) /\ shadow[p].Blueprint # key[p]) =>
                  Words(mode[p], 2) = <<"converted", "space">>

\* C17: the step that ends a successful RestoreTo touches the catalog and the
\* usage sentinel, releases the lock, returns the target directory and
\* changes nothing else on disk, whatever partial is; with partial set it
\* logs neither the plan nor the identity line, and no other step of RestoreTo
\* logs them or reads partial.
C17_PartialOnlyLogs ==
    [][ /\ \A p \in Procs :
              (pc[p] = "touch" /\ pc'[p] = "done") =>
                  /\ cmtime' = cmtime \cup {key[p]}
                  /\ usage' = usage \cup {key[p]}
                  /\ result'[p] = LabelDir
                  /\ lock' = Release(p)
                  /\ UNCHANGED <<catalogs, library, meta, tdirs, tfiles>>
        /\ logged'.partial => logged'.lines = {}
        /\ (\A p \in Procs : ~(pc[p] = "touch" /\ pc'[p] = "done")) =>
              logged' = NoLog ]_vars

C17_Witness ==
    \E p \in Procs :
        /\ pc[p] = "done" /\ logged.partial
        /\ result[p] = LabelDir /\ IsTree(meta) /\ meta.Blueprint \in usage

\* C20: a call is in its restore phase, and has file tasks, only when every
\* directory of its catalog exists under the target; the skeleton phase
\* changes no file, and when it fails the call ends with no file task
\* submitted and no file changed.
C20_BranchesBeforeFiles ==
    [][ \A p \in Procs :
          /\ pc'[p] = "restore" => DirsOf(fs'[p].Files) \subseteq tdirs'
          /\ pending'[p] # {} => pc'[p] = "restore"
          /\ pc[p] = "branches" =>
                /\ tfiles' = tfiles
                /\ pc'[p] \in {"branches", "restore", "failed", "crashed"}
                /\ pc'[p] # "restore" => pending'[p] = {} ]_vars

C20_Witness ==
    \E p \in Procs :
        /\ pc[p] = "failed" /\ err[p] = "branches"
        /\ tdirs = {"a"} /\ \A f \in TargetPaths : tfiles[f] = NoFile

\* C24: the Dirtyness that RestoreTo computes before it saves the meta is
\* defined, also when the catalog has no file and total = 0: no call is at
\* that computation with total = 0 and no call ends in the panic of the
\* division.
C24_EmptyCatalogRestores ==
    \A p \in Procs :
        /\ pc[p] = "stamp" => ~DirtynessPanics(score[p])
        /\ pc[p] # "panicked"

\* A call that has returned (with the directory, with an error, or unwinding a
\* panic) does not hold the lock.
Returned == {"done", "failed", "panicked"}

ReleasedOnReturn == \A p \in Procs : pc[p] \in Returned => p \notin lock

\* A call that fails before it holds the lock (the catalog does not load, or
\* Locker times out) leaves the lock as it is.
FailedBefore == calls' = calls + 1 /\ \A p \in Procs : pc'[p] = "lock" => pc[p] = "lock"

FailedAt(p) == pc[p] = "lock" /\ pc'[p] = "failed"

NoForeignRelease ==
    [][(FailedBefore \/ \E p \in Procs : FailedAt(p)) => lock' = lock]_vars

\* The lock a call holds is eventually free of that call.
EventuallyReleased == \A p \in Procs : (lock = {p}) ~> (p \notin lock)

Waiting(q) == pc[q] = "lock" /\ lock # Unlocked

TimedOut(q) == pc[q] = "failed" /\ err[q] = "lock-timeout" /\ q \notin lock

\* C21 as stated: every RestoreTo call that has acquired <targetdir>.lck has
\* released it when it returns, a call that fails before or at acquisition
\* leaves the lock alone, and under fair scheduling a call that waits for the
\* lock eventually acquires it.
C21_WaiterAcquires ==
    /\ []ReleasedOnReturn
    /\ NoForeignRelease
    /\ \A q \in Procs : Waiting(q) ~> (lock = {q})

\* C21 amended: every RestoreTo call that has acquired <targetdir>.lck has
\* released it when it returns, on success and on every failure after the
\* acquisition; a call that fails before or at acquisition leaves the lock
\* alone; under fair scheduling the lock a call holds is eventually released,
\* and a call that waits for the lock eventually acquires it or fails with
\* the time-out error of Locker.
C21_LockReleased ==
    /\ []ReleasedOnReturn
    /\ NoForeignRelease
    /\ EventuallyReleased
    /\ \A q \in Procs : Waiting(q) ~> (lock = {q} \/ TimedOut(q))

\* A call that failed after acquisition has returned while the other call,
\* which waited for the lock, holds it.
C21_Witness ==
    \E p, q \in Procs :
        /\ pc[p] = "failed" /\ err[p] \in {"relocate", "branches", "restore", "save"}
        /\ pc[q] \in Critical /\ lock = {q} /\ waited[q] > 0

\* ---------------------------------------------------- properties of Record

\* C8: whenever a saved catalog is on disk, every object it references is in
\* the library: the lift tasks are done before the catalog is saved, and a
\* Record that fails while lifting leaves no catalog.
C8_LiftBeforeSave ==
    \A k \in Keys :
        IsTree(catalogs[k]) =>
            \A f \in DOMAIN catalogs[k].Files : HasObject(catalogs[k].Files[f])

\* C9: after Record returned without error, every file node of the catalog it
\* saved has its object at ExactLocation(digest), and the content of that
\* object hashes to the digest.
C9_RecordedObjects ==
    (rpc = "done" /\ rerr = NoErr /\ runs > 0) =>
        LET saved == catalogs[BlueprintHash(rblueprint)]
        IN /\ IsTree(saved)
           /\ \A f \in DOMAIN saved.Files :
                 /\ HasObject(saved.Files[f])
                 /\ DigestFile(library[ExactLocation(saved.Files[f])]) = saved.Files[f]

C9_Witness ==
    /\ rpc = "done" /\ rerr = NoErr /\ runs > 0
    /\ Cardinality({l \in ObjLocs : library[l] # NoObject}) = 3

\* C10: a Record run with the blueprint of the run before it, which returned
\* without error, on a stage unchanged since, saves the same catalog, adds no
\* object to the library and counts dirty = 0.
C10_IdempotentRecord ==
    (rprev.ok /\ rblueprint = rprev.blueprint /\ rpc \in {"save", "lift"}) =>
        /\ catalogs[BlueprintHash(rblueprint)] = rprev.catalog
        /\ library = rprev.objects
        /\ rinserting = {}
        /\ rpc = "lift" => rscore.dirty = 0

C10_Witness ==
    /\ rprev.ok /\ rblueprint = rprev.blueprint /\ rpc = "lift"
    /\ rpending = {} /\ rscore.total = 4 /\ rscore.duplicate = 4

\* C11: the first Record of the scenario stage (a/x.txt and a/y.txt = "hello",
\* b/z.txt = "world") into an empty library, when it has returned without
\* error, has left exactly 2 objects and the stats total = 3, duplicate = 1,
\* links = 2, dirty = 2.
C11_FreshRecordStats ==
    (rpc = "done" /\ rerr = NoErr /\ runs = 1 /\ edits = 0) =>
        /\ Cardinality({l \in ObjLocs : library[l] # NoObject}) = 2
        /\ rscore = [total |-> 3, dirty |-> 2, links |-> 2, duplicate |-> 1]

\* ---------------------------------------------------- properties of Export

\* C12: after a successful Export(S, E, A): no object that a loadable catalog
\* of E references is an entry of A, every object that a catalog of S and no
\* loadable catalog of E references is an entry of A exactly once, every
\* catalog file of S is an entry of A exactly once, and no path is an entry
\* of A twice.
C12_ExportDedup ==
    xpc = "done" =>
        /\ \A path \in AllRefs(xE) : Entries(path) = 0
        /\ \A path \in AllRefs(xS) \ AllRefs(xE) : Entries(path) = 1
        /\ \A name \in Range(xS) : Entries(RelativeCatalog(name)) = 1
        /\ \A e \in archive : e[2] = 1

\* C13: a known catalog that does not load is skipped (the export does not
\* fail in the loop over known, and once that loop is over the objects marked
\* seen are those of the loadable known catalogs); the first catalog to export
\* that does not load fails the export, and no later one is processed.
C13_UnloadableCatalogs ==
    /\ (xpc = "failed" /\ xerr = "load") =>
          /\ xi \in DOMAIN xS
          /\ LoadFrom(catalogs[xS[xi]]) # NoErr
          /\ \A j \in 1..(xi - 1) : LoadFrom(catalogs[xS[j]]) = NoErr
          /\ \A name \in Range(xS) :
                Entries(RelativeCatalog(name)) > 0 =>
                    \E j \in 1..(xi - 1) : xS[j] = name
    /\ (xpc = "export" /\ xi = 1) =>
          {path \in seen : path[1] = "library"} = AllRefs(xE)
    /\ xpc = "done" => \A name \in Range(xS) : LoadFrom(catalogs[name]) = NoErr

C13_Witness ==
    /\ xpc = "failed" /\ xerr = "load" /\ xi = 2
    /\ \E i \in DOMAIN xE : LoadFrom(catalogs[xE[i]]) # NoErr
    /\ \E i \in DOMAIN xE : LoadFrom(catalogs[xE[i]]) = NoErr
    /\ archive # {}

\* C14: an Export for which no catalog to export loads fails with the
\* nothing-to-export error, both for an empty list and for a list of catalogs
\* none of which loads; an Export that succeeds has exported a catalog.
C14_NothingToExport ==
    /\ (xpc \in {"done", "failed"} /\ xerr # "create"
          /\ \A name \in Range(xS) : LoadFrom(catalogs[name]) # NoErr) =>
          (xpc = "failed" /\ xerr = "nothing-to-export")
    /\ xpc = "done" => (exported /\ archive # {})

\* The file tasks that have passed the test of zipseen.Add for a path and
\* have not yet written its entry.
PastCheck(path) ==
    {f \in DOMAIN xtasks : /\ xtasks[f] \in {"marking", "writing"}
                           /\ RelativeDefaultLocation(xfs.Files[f]) = path}

\* C25: the test and the mark of zipseen.Add are one step with respect to the
\* other file tasks: at most one task is past the test for a path, and no
\* path is written to the archive more than once.
C25_AddAtomic ==
    /\ \A path \in {RelativeDefaultLocation(DigestFile(c)) : c \in Contents} :
          /\ Cardinality(PastCheck(path)) <= 1
          /\ Entries(path) <= 1
    /\ \A e \in archive : e[2] = 1

\* ------------------------------------- properties of HasBlueprint, Remove

\* C15: HasBlueprint does not fail; a call that did not find the key in the
\* cache returns true exactly when the catalog was a file, loaded, passed the
\* content check and was still a file afterwards; a blueprint that was never
\* recorded is reported unavailable; and after a Record of the blueprint that
\* returned without error the content check of its catalog passes, so that
\* the blueprint is reported available unless the catalog was removed or
\* could not be read.
C15_HasBlueprintTotal ==
    \A t \in {1} :
        /\ hpc[t] # "fatal"
        /\ (hpc[t] = "returned" /\ "queried" \in hsaw[t]) =>
              /\ hfound[t] <=> (Passed \subseteq hsaw[t])
              /\ (runs = 0 /\ hkey[t] = BlueprintHash("env1")) => ~hfound[t]
        /\ (hpc[t] \in {"still", "store", "returned"}
                /\ {"queried", "recorded", "loaded"} \subseteq hsaw[t]) =>
              "checked" \in hsaw[t]

C15_Witness ==
    /\ hpc[1] = "returned" /\ hfound[1]
    /\ {"queried", "recorded"} \subseteq hsaw[1]
    /\ BlueprintHash("env2") \in DOMAIN queryCache
    /\ ~queryCache[BlueprintHash("env2")]
    /\ catalogs[BlueprintHash("env2")] = Garbage

\* C22: a HasBlueprint call for a key that the instance has answered before
\* does not run queryBlueprint and returns the first answer, whatever Record
\* and Remove have done to the catalog of the key since; only a new instance
\* forgets the answers.
C22_Memoized ==
    \A t \in {1} :
        "again" \in hsaw[t] =>
            /\ "queried" \notin hsaw[t]
            /\ hpc[t] \in {"lookup", "returned"}
            /\ hpc[t] = "returned" => hfound[t] = hfirst[hkey[t]]

\* The answer repeated is "found" although Remove has deleted the catalog
\* since the first call.
C22_Witness ==
    /\ hpc[1] = "returned" /\ "again" \in hsaw[1]
    /\ hfound[1]
    /\ ~IsFile(catalogs[hkey[1]])
    /\ mpc = "done"

\* C16: a step of Remove changes no library object, no target file or
\* directory and no meta; a turn of its loop leaves every catalog but the one
\* named alone, skips a name that is not a file without error, and for a file
\* either removes it and goes on or fails the call with an error, removing
\* nothing; outside of the loop no catalog changes.
C16_RemoveOnlyCatalogs ==
    [][ /\ library' = library /\ meta' = meta /\ tdirs' = tdirs /\ tfiles' = tfiles
        /\ (mpc = "loop" /\ mi \in DOMAIN mnames) =>
              LET name == mnames[mi]
              IN /\ \A k \in Keys \ {name} : catalogs'[k] = catalogs[k]
                 /\ ~IsFile(catalogs[name]) =>
                       /\ catalogs' = catalogs
                       /\ mi' = mi + 1 /\ mpc' = "loop" /\ merr' = NoErr
                 /\ IsFile(catalogs[name]) =>
                       \/ /\ catalogs'[name] = NoTree
                          /\ mi' = mi + 1 /\ mpc' = "loop" /\ merr' = NoErr
                       \/ /\ catalogs' = catalogs
                          /\ mpc' = "failed" /\ merr' # NoErr
        /\ (mpc # "loop" \/ mi \notin DOMAIN mnames) => catalogs' = catalogs
        /\ mpc' = "done" => (merr' = NoErr /\ mi' > Len(mnames')) ]_vars

C16_Witness ==
    /\ mpc = "failed" /\ mi = 2
    /\ mnames[1] = BlueprintHash("envX")
    /\ mnames[2] = BlueprintHash("env2") /\ catalogs[mnames[2]] = Garbage
    /\ catalogs[BlueprintHash("env1")] = NoTree

\* C18: no thread writes the queryCache map while another thread of the same
\* instance reads or writes it.
C18_QueryCacheGuarded == \A t \in HThreads : ~Racing(t)

\* ----------------------------------------------------- properties of stats

\* C19: a Dirtyness call on stats with total > 0 returns the percentage
\* dirty/total truncated to one decimal: in tenths it is the largest integer
\* d with d * total <= 1000 * dirty; and it lies between 0.0 and 100.0.
C19_DirtynessTruncated ==
    \A t \in STasks :
        sresult[t] # NoResult =>
            LET d == 10 * sresult[t].whole + sresult[t].tenth
            IN /\ sresult[t].total > 0
               /\ sresult[t].tenth \in 0..9
               /\ d * sresult[t].total <= 1000 * sresult[t].dirty
               /\ 1000 * sresult[t].dirty < (d + 1) * sresult[t].total
               /\ d >= 0 /\ d <= 1000

C19_Witness ==
    \E t \in STasks :
        /\ sresult[t].total = 3 /\ sresult[t].dirty = 2
        /\ sresult[t].whole = 66 /\ sresult[t].tenth = 6

\* C23: the counters equal the numbers of calls that have returned: total the
\* number of Duplicate, Link and Dirty calls, duplicate and links the numbers of
\* Duplicate and Link calls, dirty the number of Dirty(true) calls; and
\* dirty + links + duplicate <= total.
C23_NoLostUpdate ==
    /\ st.total = sdone["Duplicate"] + sdone["Link"] + sdone["DirtyTrue"]
                    + sdone["DirtyFalse"]
    /\ st.duplicate = sdone["Duplicate"]
    /\ st.links = sdone["Link"]
    /\ st.dirty = sdone["DirtyTrue"]
    /\ st.dirty + st.links + st.duplicate <= st.total

\* One task has read the counters while the other, which called later, waits
\* for the mutex, after calls of every operation have returned.
C23_Witness ==
    /\ \E t, u \in STasks : spc[t] = "loaded" /\ spc[u] = "lock" /\ sop[u] # "Dirtyness"
    /\ st.total >= 2 /\ st.dirty + st.links + st.duplicate < st.total

\* ------------------------------------- properties of Restore and TargetDir

\* The blueprint and the arguments of the Restore call of p give, by
\* TargetDir in the disk state at hand, the path that Restore returns.
SamePath(p, path) ==
    \E b \in TargetBlueprints :
        /\ BlueprintHash(b) = key[p]
        /\ LET t == TargetDir(b, targs[p].controller, targs[p].space, TRUE)
           IN /\ t.err = NoErr
              /\ t.result = path
              /\ path = Join(HolotreeBase(catalogs[key[p]]),
                             ControllerSpaceName(targs[p].controller, targs[p].space))

\* C26: the path a successful Restore(blueprint, controller, space) returns is
\* the path TargetDir(blueprint, controller, space) returns, HolotreeBase of
\* the catalog joined with ControllerSpaceName(controller, space); a Restore
\* call gets past the load of the catalog only if the catalog loads, and
\* fails with the error and no path otherwise, while TargetDir for a blueprint
\* whose catalog does not load returns the path under the default holotree
\* location and no error.
C26_RestoreIsTargetDir ==
    /\ [][\A p \in Procs : (pc[p] = "touch" /\ pc'[p] = "done") =>
                SamePath(p, result'[p])]_vars
    /\ [](\A p \in Procs :
            /\ pc[p] \notin Terminal => LoadFrom(catalogs[key[p]]) = NoErr
            /\ pc[p] = "failed" => result[p] = <<>> /\ err[p] # NoErr)
    /\ [](\A b \in TargetBlueprints, c \in Controllers, s \in Spaces :
            LoadFrom(catalogs[BlueprintHash(b)]) # NoErr =>
                TargetDir(b, c, s, TRUE) =
                    [result |-> Join(HolotreeLocation, ControllerSpaceName(c, s)),
                     err |-> NoErr])

\* Restore of the catalog recorded under the other location has returned its
\* path for controller "user" and space "citests".
C26_Witness ==
    /\ pc[1] = "done"
    /\ targs[1].controller = "user" /\ targs[1].space = "citests"
    /\ result[1] = Join("shared", ControllerSpaceName("user", "citests"))
    /\ result[1] # Join(HolotreeLocation, ControllerSpaceName("citests", "user"))
    /\ meta.Blueprint = BlueprintHash("env2")

====
